---- MODULE Spec2Model ----
(***************************************************************************)
(* FastAPIDemoCharm (src/charm.py): a Juju charm that keeps one Pebble     *)
(* service ("fastapi-service" in container "demo-server") in step with     *)
(* the database credentials, the "server-port" configuration option and    *)
(* the readiness of the workload container.                                *)
(*                                                                         *)
(* Every event handler runs to completion before the next event is         *)
(* dispatched, so each handler is one action.  The outcome of each call    *)
(* the handler makes on the workload (Pebble, the HTTP version endpoint)   *)
(* is an input of the action.                                              *)
(***************************************************************************)
EXTENDS Integers, Sequences, FiniteSets, TLC

VARIABLES
    app_environment,   \* self.app_environment
    config,            \* self.config["server-port"]
    status,            \* self.unit.status
    workload_version,  \* value last passed to self.unit.set_workload_version
    reachable,         \* what self.container.can_connect() answers
    plan,              \* Pebble's plan: service name -> service definition
    running,           \* definition the managed process was last (re)started with
    op,                \* handler that ran last
    outcome,           \* "ok" when it returned, "error" when it raised
    calls,             \* calls it made on the workload, in order
    waited             \* whether it found the status "Waiting for Pebble ..."

vars == <<app_environment, config, status, workload_version, reachable, plan,
          running, op, outcome, calls, waited>>

----------------------------------------------------------------------------
(* Bounds and inputs *)

MaxColons == 2

ReservedPort == 22

Ports == {ReservedPort, 8080}

\* "h" followed by n times ":p": an endpoint with n separators.
RECURSIVE endpoint(_)
endpoint(n) == IF n = 0 THEN <<"h">> ELSE endpoint(n - 1) \o <<":", "p">>

\* Endpoints a database_created event may carry: with no, one or several
\* separators, and one whose port is empty.
Endpoints == {endpoint(n) : n \in 0..MaxColons} \cup {<<"h", ":">>}

Usernames == {"alice"}

Passwords == {"s3cr3t"}

Versions == {"1.0.0"}

\* How the workload answers during one run of _update_layer_and_restart:
\*   fault   the call on Pebble that raises, if the run gets to it;
\*   reach2  what can_connect answers when the version property asks again;
\*   probe   what GET /version yields: a version, or "fail" (timeout,
\*           connection error, malformed body).
\* An answer the run cannot get to after an earlier one is fixed, so that
\* each course of a run is listed once.
NoAnswer == [fault |-> "none", reach2 |-> FALSE, probe |-> "fail"]

AllAnswers ==
    {[fault |-> "none", reach2 |-> TRUE, probe |-> v] : v \in Versions \cup {"fail"}}
    \cup {NoAnswer}
    \cup {[fault |-> f, reach2 |-> TRUE, probe |-> "fail"] :
             f \in {"get_plan", "add_layer", "restart", "get_services"}}

\* The answers to choose from when the first can_connect answers r: a
\* workload that cannot be reached is asked nothing further.
Answers(r) == IF r THEN AllAnswers ELSE {NoAnswer}

pebble_service_name == "fastapi-service"

other_service_name == "other-service"

\* A service of the container that this charm does not manage.
other_service == [override |-> "replace", command |-> <<"sleep">>, startup |-> "enabled"]

EmptyDict == [k \in {} |-> ""]

NoService == << >>

----------------------------------------------------------------------------
(* Statuses *)

MaintenanceStatus(m) == [name |-> "maintenance", message |-> m]
WaitingStatus(m) == [name |-> "waiting", message |-> m]
BlockedStatus(m) == [name |-> "blocked", message |-> m]
ActiveStatus == [name |-> "active", message |-> ""]
UnknownStatus == [name |-> "unknown", message |-> ""]

\* The status of line 113.
WaitingForPebble == WaitingStatus("Waiting for Pebble in workload container")

----------------------------------------------------------------------------
(* Pure helpers *)

\* str.split(":", 1): s cut at its first separator only.
RECURSIVE split_first_acc(_, _)
split_first_acc(s, cur) ==
    IF s = << >> THEN <<cur>>
    ELSE IF Head(s) = ":" THEN <<cur, Tail(s)>>
    ELSE split_first_acc(Tail(s), Append(cur, Head(s)))

split_maxsplit(s) == split_first_acc(s, << >>)

\* str.split(":"): the pieces of s between separators, cur being the piece
\* under construction.
RECURSIVE split_acc(_, _, _)
split_acc(s, cur, parts) ==
    IF s = << >> THEN Append(parts, cur)
    ELSE IF Head(s) = ":" THEN split_acc(Tail(s), << >>, Append(parts, cur))
    ELSE split_acc(Tail(s), Append(cur, Head(s)), parts)

split(s) == split_acc(s, << >>, << >>)

\* " ".join([...]) of _pebble_layer: the words of the command line, the last
\* one being "--port=" followed by the configured port.
command(port) ==
    <<"uvicorn", "api_demo_server.app:app", "--host=0.0.0.0", <<"--port=", port>>>>

\* The dictionary handed to Layer(...) by _pebble_layer.
_pebble_layer(env, port) ==
    [summary |-> "FastAPI demo service",
     description |-> "pebble config layer for FastAPI demo server",
     services |-> [n \in {pebble_service_name} |->
        [override |-> "replace",
         summary |-> "fastapi demo",
         command |-> command(port),
         startup |-> "enabled",
         environment |-> env]]]

\* Service.to_dict(): fields with an empty value are left out.
service_to_dict(svc) ==
    IF "environment" \in DOMAIN svc /\ svc.environment = EmptyDict
    THEN [f \in DOMAIN svc \ {"environment"} |-> svc[f]]
    ELSE svc

\* Layer.to_dict()
layer_to_dict(layer) ==
    [layer EXCEPT !.services = [n \in DOMAIN layer.services |-> service_to_dict(layer.services[n])]]

\* Plan.to_dict(): a plan has services but no summary or description; the
\* "services" key is left out when there is none.
plan_to_dict(p) ==
    IF DOMAIN p = {} THEN EmptyDict
    ELSE [k \in {"services"} |-> [n \in DOMAIN p |-> service_to_dict(p[n])]]

\* dict.get("services", {})
get_services_key(d) == IF "services" \in DOMAIN d THEN d.services ELSE EmptyDict

\* Pebble's add_layer(label, layer, combine=True): every service of the layer
\* has override "replace", so it replaces the plan's entry of that name, and
\* the other services of the plan stay.
add_layer(p, layer_dict) ==
    [n \in DOMAIN p \cup DOMAIN layer_dict.services |->
        IF n \in DOMAIN layer_dict.services THEN layer_dict.services[n] ELSE p[n]]

----------------------------------------------------------------------------
(* Calls on the workload *)

CanConnect(b) == [call |-> "can_connect", result |-> b]
GetPlan == [call |-> "get_plan"]
AddLayer(label, combine) == [call |-> "add_layer", label |-> label, combine |-> combine]
Restart(name) == [call |-> "restart", service |-> name]
GetServices(name) == [call |-> "get_services", service |-> name]
HttpGet(port) == [call |-> "http_get", port |-> port]

\* Line 101 comparing the command lines only.
layer_changed_command_only(services, new_layer) ==
    \/ pebble_service_name \notin DOMAIN services
    \/ services[pebble_service_name].command
          # new_layer.services[pebble_service_name].command

\* Line 101: the comparison that decides whether the layer is applied.
layer_changed(services, new_layer) == services # new_layer.services

\* The version property without its try/except: a failing GET raises.
version_without_except(p, port, ans) ==
    IF ~ans.reach2
    THEN [calls |-> <<CanConnect(FALSE)>>, raised |-> FALSE, value |-> ""]
    ELSE IF ans.fault = "get_services"
    THEN [calls |-> <<CanConnect(TRUE), GetServices(pebble_service_name)>>,
          raised |-> TRUE, value |-> ""]
    ELSE IF pebble_service_name \notin DOMAIN p
    THEN [calls |-> <<CanConnect(TRUE), GetServices(pebble_service_name)>>,
          raised |-> FALSE, value |-> ""]
    ELSE [calls |-> <<CanConnect(TRUE), GetServices(pebble_service_name), HttpGet(port)>>,
          raised |-> ans.probe = "fail",
          value |-> IF ans.probe = "fail" THEN "" ELSE ans.probe]

\* The version property without the get_services test of line 144.
version_without_service_test(p, port, ans) ==
    IF ~ans.reach2
    THEN [calls |-> <<CanConnect(FALSE)>>, raised |-> FALSE, value |-> ""]
    ELSE [calls |-> <<CanConnect(TRUE), HttpGet(port)>>,
          raised |-> FALSE,
          value |-> IF ans.probe = "fail" THEN "" ELSE ans.probe]

\* The version property and _request_version, called with server-port port
\* once the plan is p: the calls made, whether get_services raised, and the
\* version returned.
version(p, port, ans) ==
    IF ~ans.reach2
    THEN [calls |-> <<CanConnect(FALSE)>>, raised |-> FALSE, value |-> ""]
    ELSE IF ans.fault = "get_services"
    THEN [calls |-> <<CanConnect(TRUE), GetServices(pebble_service_name)>>,
          raised |-> TRUE, value |-> ""]
    ELSE IF pebble_service_name \notin DOMAIN p
    THEN [calls |-> <<CanConnect(TRUE), GetServices(pebble_service_name)>>,
          raised |-> FALSE, value |-> ""]
    ELSE [calls |-> <<CanConnect(TRUE), GetServices(pebble_service_name), HttpGet(port)>>,
          raised |-> FALSE,
          value |-> IF ans.probe = "fail" THEN "" ELSE ans.probe]

\* The workload and what the unit shows of it.
World == [status |-> status, workload_version |-> workload_version,
          reachable |-> reachable, plan |-> plan, running |-> running]

\* Lines 98-111: the workload answered the first can_connect.
reconcile_connected(w, env, port, ans) ==
    LET new_layer == layer_to_dict(_pebble_layer(env, port))
        services == get_services_key(plan_to_dict(w.plan))
        changed == layer_changed(services, new_layer)
        applied == add_layer(w.plan, new_layer)
        head == <<CanConnect(TRUE), GetPlan>>
        apply == IF changed
                 THEN <<AddLayer("fastapi_demo", TRUE), Restart(pebble_service_name)>>
                 ELSE << >>
        done == IF changed
                THEN [w EXCEPT !.plan = applied, !.running = applied[pebble_service_name]]
                ELSE w
        v == version(done.plan, port, ans)
    IN  IF ans.fault = "get_plan"
        THEN [world |-> w, outcome |-> "error", calls |-> head]
        ELSE IF changed /\ ans.fault = "add_layer"
        THEN [world |-> w, outcome |-> "error",
              calls |-> head \o <<AddLayer("fastapi_demo", TRUE)>>]
        ELSE IF changed /\ ans.fault = "restart"
        THEN [world |-> [w EXCEPT !.plan = applied],
              outcome |-> "error", calls |-> head \o apply]
        ELSE IF v.raised
        THEN [world |-> done, outcome |-> "error", calls |-> head \o apply \o v.calls]
        ELSE [world |-> [done EXCEPT !.workload_version = v.value,
                                     !.reachable = ans.reach2,
                                     !.status = ActiveStatus],
              outcome |-> "ok", calls |-> head \o apply \o v.calls]

\* Lines 112-113 setting the status of line 111.
reconcile_unreachable_active(w) ==
    [world |-> [w EXCEPT !.status = ActiveStatus],
     outcome |-> "ok", calls |-> <<CanConnect(FALSE)>>]

\* Lines 112-113 without the assignment of the status.
reconcile_unreachable_keeps_status(w) ==
    [world |-> w, outcome |-> "ok", calls |-> <<CanConnect(FALSE)>>]

\* Lines 112-113: it did not.
reconcile_unreachable(w) ==
    [world |-> [w EXCEPT !.status =
                   WaitingStatus("Waiting for Pebble in workload container")],
     outcome |-> "ok", calls |-> <<CanConnect(FALSE)>>]

\* _update_layer_and_restart without the test of line 97.
reconcile_without_can_connect(w, env, port, ans) ==
    reconcile_connected([w EXCEPT !.status = MaintenanceStatus("Assembling pod spec")],
                        env, port, ans)

\* _update_layer_and_restart with add_layer and restart in a try/except
\* that takes their failure for a workload not yet ready.
reconcile_masks_failure(w, env, port, ans) ==
    LET begun == [w EXCEPT !.status = MaintenanceStatus("Assembling pod spec")]
        r == reconcile_connected(begun, env, port, ans)
    IN  IF ~w.reachable THEN reconcile_unreachable(begun)
        ELSE IF r.outcome = "error" /\ ans.fault \in {"add_layer", "restart"}
        THEN [r EXCEPT !.outcome = "ok",
                       !.world.status =
                           WaitingStatus("Waiting for Pebble in workload container")]
        ELSE r

\* _update_layer_and_restart run once more when a call raised.
reconcile_retries(w, env, port, ans) ==
    LET begun == [w EXCEPT !.status = MaintenanceStatus("Assembling pod spec")]
        r1 == reconcile_connected(begun, env, port, ans)
        again == [fault |-> "none", reach2 |-> TRUE, probe |-> "fail"]
        r2 == reconcile_connected(r1.world, env, port, again)
    IN  IF ~w.reachable THEN reconcile_unreachable(begun)
        ELSE IF r1.outcome = "error"
        THEN [r2 EXCEPT !.calls = r1.calls \o r2.calls]
        ELSE r1

\* _update_layer_and_restart with the test of line 97 negated.
reconcile_negated_test(w, env, port, ans) ==
    LET begun == [w EXCEPT !.status = MaintenanceStatus("Assembling pod spec")]
    IN  IF ~w.reachable
        THEN reconcile_connected(begun, env, port, ans)
        ELSE reconcile_unreachable(begun)

\* _update_layer_and_restart run in world w with self.app_environment env and
\* server-port port, the workload answering ans: the world it leaves, whether
\* it returned ("ok") or raised ("error"), and the calls it made.
reconcile(w, env, port, ans) ==
    LET begun == [w EXCEPT !.status = MaintenanceStatus("Assembling pod spec")]
    IN  IF w.reachable
        THEN reconcile_connected(begun, env, port, ans)
        ELSE reconcile_unreachable(begun)

\* _update_layer_and_restart as a step of the handler that calls it.
_update_layer_and_restart(env, port, ans) ==
    LET r == reconcile(World, env, port, ans)
    IN  /\ status' = r.world.status
        /\ workload_version' = r.world.workload_version
        /\ reachable' = r.world.reachable
        /\ plan' = r.world.plan
        /\ running' = r.world.running
        /\ outcome' = r.outcome
        /\ calls' = r.calls

----------------------------------------------------------------------------
(* Event handlers *)

\* database_created and endpoints_changed
_on_database_created(endpoints, username, password) ==
    LET parts == split(endpoints)
    IN  /\ op' = "database_created"
        /\ waited' = (status = WaitingForPebble)
        /\ UNCHANGED config
        /\ IF Len(parts) # 2
           THEN \* host, port = ... raises ValueError
                /\ outcome' = "error"
                /\ calls' = << >>
                /\ UNCHANGED <<app_environment, status, workload_version, reachable,
                               plan, running>>
           ELSE LET env == [DEMO_SERVER_DB_HOST |-> parts[1],
                            DEMO_SERVER_DB_PORT |-> parts[2],
                            DEMO_SERVER_DB_USER |-> username,
                            DEMO_SERVER_DB_PASSWORD |-> password]
                IN  /\ app_environment' = env
                    /\ \E ans \in Answers(reachable) : _update_layer_and_restart(env, config, ans)

\* database_relation_broken without line 70.
_on_database_relation_removed_keeps_env ==
    /\ op' = "database_relation_broken"
    /\ waited' = (status = WaitingForPebble)
    /\ status' = WaitingStatus("Waiting for database relation")
    /\ outcome' = "ok"
    /\ calls' = << >>
    /\ UNCHANGED <<app_environment, config, workload_version, reachable, plan, running>>

\* database_relation_broken ending, as _on_database_created does, with a call
\* of _update_layer_and_restart.
_on_database_relation_removed_reconciles ==
    /\ op' = "database_relation_broken"
    /\ waited' = (status = WaitingForPebble)
    /\ app_environment' = EmptyDict
    /\ UNCHANGED config
    /\ \E ans \in Answers(reachable) : _update_layer_and_restart(EmptyDict, config, ans)

\* database_relation_broken
_on_database_relation_removed ==
    /\ op' = "database_relation_broken"
    /\ waited' = (status = WaitingForPebble)
    /\ app_environment' = EmptyDict
    /\ status' = WaitingStatus("Waiting for database relation")
    /\ outcome' = "ok"
    /\ calls' = << >>
    /\ UNCHANGED <<config, workload_version, reachable, plan, running>>

\* config_changed without the return of line 80.
_on_config_changed_no_return(port) ==
    /\ op' = "config_changed"
    /\ waited' = (status = WaitingForPebble)
    /\ config' = port
    /\ UNCHANGED app_environment
    /\ \E ans \in Answers(reachable) : _update_layer_and_restart(app_environment, port, ans)

\* config_changed, the option server-port now being port
_on_config_changed(port) ==
    /\ op' = "config_changed"
    /\ waited' = (status = WaitingForPebble)
    /\ config' = port
    /\ UNCHANGED app_environment
    /\ IF port = ReservedPort
       THEN /\ status' = BlockedStatus("invalid port number, 22 is reserved for SSH")
            /\ outcome' = "ok"
            /\ calls' = << >>
            /\ UNCHANGED <<workload_version, reachable, plan, running>>
       ELSE \E ans \in Answers(reachable) : _update_layer_and_restart(app_environment, port, ans)

\* demo_server_pebble_ready
_on_pebble_ready ==
    /\ op' = "pebble_ready"
    /\ waited' = (status = WaitingForPebble)
    /\ UNCHANGED <<app_environment, config>>
    /\ \E ans \in Answers(reachable) : _update_layer_and_restart(app_environment, config, ans)

\* __init__: the charm object is built anew for an event; what Juju and
\* Pebble hold stays.
__init__ ==
    /\ op' = "init"
    /\ waited' = FALSE
    /\ app_environment' = EmptyDict
    /\ outcome' = "ok"
    /\ calls' = << >>
    /\ UNCHANGED <<config, status, workload_version, reachable, plan, running>>

\* The workload container comes up or goes away.
WorkloadChanges ==
    /\ op' = "workload"
    /\ waited' = FALSE
    /\ reachable' = ~reachable
    /\ outcome' = "ok"
    /\ calls' = << >>
    /\ UNCHANGED <<app_environment, config, status, workload_version, plan, running>>

----------------------------------------------------------------------------

InitialPlans ==
    {EmptyDict, [n \in {other_service_name} |-> other_service]}

Init ==
    /\ app_environment = EmptyDict
    /\ config \in Ports \ {ReservedPort}
    /\ status = UnknownStatus
    /\ workload_version = ""
    /\ reachable \in BOOLEAN
    /\ plan \in InitialPlans
    /\ running = NoService
    /\ op = "init"
    /\ outcome = "ok"
    /\ calls = << >>
    /\ waited = FALSE

Next ==
    \/ \E e \in Endpoints, u \in Usernames, p \in Passwords : _on_database_created(e, u, p)
    \/ _on_database_relation_removed
    \/ \E p \in Ports : _on_config_changed(p)
    \/ _on_pebble_ready
    \/ __init__
    \/ WorkloadChanges

Spec == Init /\ [][Next]_vars

----------------------------------------------------------------------------
(* Vocabulary of the properties *)

\* The handlers that reach _update_layer_and_restart.
ReconcileOps == {"database_created", "config_changed", "pebble_ready"}

\* How many of the calls cs are calls of c.
Count(cs, c) == Cardinality({i \in 1..Len(cs) : cs[i].call = c})

NoApplyNoRestart(cs) == Count(cs, "add_layer") = 0 /\ Count(cs, "restart") = 0

\* The definition of the managed service that _pebble_layer asks for.
desired(env, port) == layer_to_dict(_pebble_layer(env, port)).services[pebble_service_name]

FullCredentials(env) ==
    /\ DOMAIN env = {"DEMO_SERVER_DB_HOST", "DEMO_SERVER_DB_PORT",
                     "DEMO_SERVER_DB_USER", "DEMO_SERVER_DB_PASSWORD"}
    /\ env.DEMO_SERVER_DB_HOST # << >>
    /\ env.DEMO_SERVER_DB_PORT # << >>
    /\ env.DEMO_SERVER_DB_USER # ""
    /\ env.DEMO_SERVER_DB_PASSWORD # ""

Managed == pebble_service_name \in DOMAIN plan

----------------------------------------------------------------------------
(* C1 *)

\* C1: in every state with a reachable workload, two runs of
\* _update_layer_and_restart in immediate succession that both return, the
\* workload staying reachable, make at most one add_layer and at most one
\* restart call between them, and the second run makes neither.
C1_ReconcileTwiceAppliesOnce ==
    reachable =>
        \A a1 \in AllAnswers, a2 \in AllAnswers :
            LET r1 == reconcile(World, app_environment, config, a1)
                r2 == reconcile(r1.world, app_environment, config, a2)
            IN  (r1.outcome = "ok" /\ r1.world.reachable /\ r2.outcome = "ok") =>
                    /\ Count(r1.calls, "add_layer") + Count(r2.calls, "add_layer") <= 1
                    /\ Count(r1.calls, "restart") + Count(r2.calls, "restart") <= 1
                    /\ NoApplyNoRestart(r2.calls)

----------------------------------------------------------------------------
(* C2 *)

\* C2: a config_changed event with server-port 22 ends with status blocked,
\* makes no add_layer and no restart call, and leaves self.app_environment
\* as it was.
C2_ReservedPortBlocks ==
    [][(op' = "config_changed" /\ config' = ReservedPort) =>
            /\ status'.name = "blocked"
            /\ NoApplyNoRestart(calls')
            /\ app_environment' = app_environment]_vars

\* A config_changed with port 22 was handled with credentials stored, the
\* workload reachable and the service in its plan.
C2_Witness ==
    /\ op = "config_changed"
    /\ config = ReservedPort
    /\ status.name = "blocked"
    /\ FullCredentials(app_environment)
    /\ reachable
    /\ Managed

----------------------------------------------------------------------------
(* C3 *)

\* C3: the plan never holds a definition of the managed service whose
\* command line has --port=22.
C3_NeverPort22 ==
    Managed => plan[pebble_service_name].command[4] # <<"--port=", ReservedPort>>

----------------------------------------------------------------------------
(* C4 *)

\* C4: once the status is blocked, it stays blocked over every step that is
\* not the handling of a config_changed event.
C4_BlockedUntilConfigChanged ==
    [][(status.name = "blocked" /\ op' # "config_changed") =>
            status'.name = "blocked"]_vars

----------------------------------------------------------------------------
(* C5 *)

\* C5: a database_relation_broken event ends with status waiting and with
\* self.app_environment empty.
C5_RevokedWaitsEmpty ==
    op = "database_relation_broken" =>
        /\ status = WaitingStatus("Waiting for database relation")
        /\ app_environment = EmptyDict

\* A database_relation_broken was handled while the workload was reachable
\* and ran the service with credentials, a version having been recorded.
C5_Witness ==
    /\ op = "database_relation_broken"
    /\ status.name = "waiting"
    /\ app_environment = EmptyDict
    /\ reachable
    /\ Managed
    /\ workload_version # ""

----------------------------------------------------------------------------
(* C6 *)

\* C6: handling a database_relation_broken event makes no call on the
\* workload and leaves the plan, the running service and the recorded
\* version as they were.
C6_RevokedDoesNotReconcile ==
    [][op' = "database_relation_broken" =>
            /\ calls' = << >>
            /\ plan' = plan
            /\ running' = running
            /\ reachable' = reachable
            /\ workload_version' = workload_version]_vars

\* A database_relation_broken was handled while the workload was reachable,
\* and the plan still holds the credentials applied before.
C6_Witness ==
    /\ op = "database_relation_broken"
    /\ calls = << >>
    /\ reachable
    /\ Managed
    /\ "environment" \in DOMAIN plan[pebble_service_name]
    /\ FullCredentials(plan[pebble_service_name].environment)
    /\ app_environment = EmptyDict

----------------------------------------------------------------------------
(* C7 *)

\* C7: self.app_environment is either empty or holds four non-empty values.
C7_AllOrNothing ==
    app_environment = EmptyDict \/ FullCredentials(app_environment)

----------------------------------------------------------------------------
(* C8 *)

\* C8: when a handler has returned from _update_layer_and_restart with
\* status active, the plan's definition of the managed service has the
\* command line with --port=<server-port>, and its environment is
\* self.app_environment (no environment when that is empty).
C8_Convergence ==
    (op \in ReconcileOps /\ outcome = "ok" /\ status = ActiveStatus) =>
        /\ Managed
        /\ plan[pebble_service_name].command =
              <<"uvicorn", "api_demo_server.app:app", "--host=0.0.0.0",
                <<"--port=", config>>>>
        /\ plan[pebble_service_name].startup = "enabled"
        /\ IF app_environment = EmptyDict
           THEN "environment" \notin DOMAIN plan[pebble_service_name]
           ELSE /\ "environment" \in DOMAIN plan[pebble_service_name]
                /\ plan[pebble_service_name].environment = app_environment

\* Credentials were delivered, the port is 8080, and a pebble_ready has
\* ended active with both in the plan.
C8_Witness ==
    /\ op = "pebble_ready"
    /\ outcome = "ok"
    /\ status = ActiveStatus
    /\ config = 8080
    /\ FullCredentials(app_environment)
    /\ Managed
    /\ plan[pebble_service_name] = desired(app_environment, 8080)
    /\ Count(calls, "add_layer") = 1

----------------------------------------------------------------------------
(* C9 *)

\* C9 as stated: after _update_layer_and_restart has run on an unreachable
\* workload, the status is waiting, no add_layer and no restart call was
\* made, and the recorded version is the empty string.
C9_UnreachableVersionEmpty ==
    (op \in ReconcileOps /\ calls = <<CanConnect(FALSE)>>) =>
        /\ status = WaitingStatus("Waiting for Pebble in workload container")
        /\ NoApplyNoRestart(calls)
        /\ workload_version = ""

\* C9 as amended: _update_layer_and_restart run on an unreachable workload
\* ends with status waiting, makes no call but can_connect, and leaves the
\* recorded version and the plan as they were.
C9_UnreachableWaits ==
    [][(~reachable /\ op' \in ReconcileOps /\ calls' # << >>) =>
            /\ status' = WaitingStatus("Waiting for Pebble in workload container")
            /\ outcome' = "ok"
            /\ calls' = <<CanConnect(FALSE)>>
            /\ workload_version' = workload_version
            /\ plan' = plan
            /\ running' = running]_vars

\* A pebble_ready found the workload unreachable after a version had been
\* recorded.
C9_Witness ==
    /\ op = "pebble_ready"
    /\ calls = <<CanConnect(FALSE)>>
    /\ status = WaitingStatus("Waiting for Pebble in workload container")
    /\ workload_version # ""
    /\ Managed

----------------------------------------------------------------------------
(* C10 *)

\* C10: whenever the plan's definition of the managed service is the one
\* _pebble_layer asks for, _update_layer_and_restart makes no add_layer and
\* no restart call.
C10_NoRestartWhenUnchanged ==
    (reachable /\ Managed
        /\ plan[pebble_service_name] = desired(app_environment, config)) =>
        \A a \in AllAnswers :
            NoApplyNoRestart(reconcile(World, app_environment, config, a).calls)

----------------------------------------------------------------------------
(* C11 *)

\* The answer of a workload whose Pebble calls succeed and whose GET /version
\* fails.
ProbeFails == [fault |-> "none", reach2 |-> TRUE, probe |-> "fail"]

\* C11: in every state with a reachable workload, a run of
\* _update_layer_and_restart whose GET /version fails, its Pebble calls
\* succeeding, returns, ends with status active, and records the empty
\* string as the version.
C11_ProbeFailureSwallowed ==
    reachable =>
        \A env \in {app_environment, EmptyDict}, port \in Ports :
            LET r == reconcile(World, env, port, ProbeFails)
            IN  /\ r.outcome = "ok"
                /\ r.world.status = ActiveStatus
                /\ r.world.workload_version = ""
                /\ r.calls[Len(r.calls)] = HttpGet(port)

\* A run applied and restarted the layer, its GET /version failed, and it
\* ended active with an empty version.
C11_Witness ==
    /\ op \in ReconcileOps
    /\ outcome = "ok"
    /\ status = ActiveStatus
    /\ Count(calls, "add_layer") = 1
    /\ calls[Len(calls)].call = "http_get"
    /\ workload_version = ""

----------------------------------------------------------------------------
(* C12 *)

\* C12: a handler whose last call is an add_layer or a restart (the call
\* raised) ends in error, with the status maintenance set at line 96 and the
\* recorded version as it was.
C12_ApplyFailureNotMasked ==
    [][(op' \in ReconcileOps /\ calls' # << >>
            /\ calls'[Len(calls')].call \in {"add_layer", "restart"}) =>
            /\ outcome' = "error"
            /\ status' = MaintenanceStatus("Assembling pod spec")
            /\ workload_version' = workload_version]_vars

\* A restart raised after a version had been recorded by an earlier run.
C12_Witness ==
    /\ op \in ReconcileOps
    /\ outcome = "error"
    /\ calls # << >>
    /\ calls[Len(calls)].call = "restart"
    /\ status.name = "maintenance"
    /\ workload_version # ""

----------------------------------------------------------------------------
(* C13 *)

\* How many separators the endpoint e has.
Colons(e) == Cardinality({i \in 1..Len(e) : e[i] = ":"})

\* C13: a database_created event whose endpoint has no separator or more
\* than one ends in error, makes no call, and leaves self.app_environment,
\* the status, the recorded version and the workload as they were.
C13_MalformedEndpointFatal ==
    [][\A e \in Endpoints, u \in Usernames, p \in Passwords :
            (Colons(e) # 1 /\ _on_database_created(e, u, p)) =>
                /\ outcome' = "error"
                /\ calls' = << >>
                /\ UNCHANGED <<app_environment, config, status, workload_version,
                               reachable, plan, running>>]_vars

\* A malformed database_created was handled while credentials were stored
\* and the status was active: both are still there.
C13_Witness ==
    /\ op = "database_created"
    /\ outcome = "error"
    /\ calls = << >>
    /\ FullCredentials(app_environment)
    /\ status = ActiveStatus

----------------------------------------------------------------------------
(* C14 *)

\* C14: when the plan holds another service and the managed service's
\* definition is the desired one, _update_layer_and_restart makes no
\* add_layer and no restart call; and every add_layer made has combine=True,
\* every restart names the managed service, and the other service stays in
\* the plan.
C14_OtherServicesUntouched ==
    /\ (reachable /\ Managed /\ other_service_name \in DOMAIN plan
            /\ plan[pebble_service_name] = desired(app_environment, config)) =>
            \A a \in AllAnswers :
                LET r == reconcile(World, app_environment, config, a)
                IN  /\ NoApplyNoRestart(r.calls)
                    /\ r.world.plan = plan
    /\ \A i \in 1..Len(calls) :
            /\ calls[i].call = "add_layer" => calls[i].combine
            /\ calls[i].call = "restart" => calls[i].service = pebble_service_name
    /\ \A a \in AllAnswers :
            DOMAIN plan \subseteq
                DOMAIN reconcile(World, app_environment, config, a).world.plan

----------------------------------------------------------------------------
(* C15 *)

\* C15: a handler that returned from _update_layer_and_restart with status
\* active made its calls in this order: can_connect answering True,
\* get_plan, then add_layer and restart if any, then the can_connect of the
\* version property; and a restart is only ever made right after an
\* add_layer.
C15_OrderInsideReconcile ==
    /\ (op \in ReconcileOps /\ outcome = "ok" /\ status = ActiveStatus) =>
            /\ Len(calls) >= 3
            /\ calls[1] = CanConnect(TRUE)
            /\ calls[2] = GetPlan
            /\ \E j \in 3..Len(calls) :
                  /\ calls[j].call = "can_connect"
                  /\ \A i \in 1..Len(calls) :
                        calls[i].call \in {"add_layer", "restart"} => i < j
                  /\ \A i \in 1..Len(calls) :
                        calls[i].call \in {"get_services", "http_get"} => i > j
    /\ \A i \in 1..Len(calls) :
            calls[i].call = "restart" => (i > 1 /\ calls[i - 1].call = "add_layer")

\* A run that applied, restarted, probed the version and ended active.
C15_Witness ==
    /\ op \in ReconcileOps
    /\ outcome = "ok"
    /\ status = ActiveStatus
    /\ Len(calls) = 7
    /\ calls[3].call = "add_layer"
    /\ calls[4].call = "restart"
    /\ calls[7].call = "http_get"

----------------------------------------------------------------------------
(* C16: recovery from "Waiting for Pebble in workload container" *)

\* A delivered pebble_ready whose calls on the workload all succeed.
PebbleReadySucceeds == op' = "pebble_ready" /\ outcome' = "ok" /\ _on_pebble_ready

\* The events of Next, the credentials being well formed.
FairNext ==
    \/ \E u \in Usernames, p \in Passwords : _on_database_created(endpoint(1), u, p)
    \/ _on_database_relation_removed
    \/ \E p \in Ports : _on_config_changed(p)
    \/ _on_pebble_ready
    \/ __init__
    \/ WorkloadChanges

\* Events keep being delivered: a pebble_ready that can run to its end is not
\* postponed for ever.
FairSpec == Init /\ [][FairNext]_vars /\ WF_vars(PebbleReadySucceeds)

----------------------------------------------------------------------------
(* C17: no retry loop *)

\* The inbound events.
EventOps == ReconcileOps \cup {"database_relation_broken"}

\* C17: status changes and calls on the workload happen only while an inbound
\* event is handled; one handled event runs _update_layer_and_restart at most
\* once, hence at most one add_layer and at most one restart; and the status
\* "Waiting for Pebble in workload container" stays while no event is
\* delivered, even when the workload becomes reachable.
C17_NoRetryLoop ==
    /\ [](/\ Count(calls, "get_plan") <= 1
          /\ Count(calls, "add_layer") <= 1
          /\ Count(calls, "restart") <= 1
          /\ (calls # << >> => op \in ReconcileOps))
    /\ [][op' \notin EventOps =>
            /\ calls' = << >>
            /\ UNCHANGED <<status, workload_version, plan, running>>]_vars
    /\ [][(status = WaitingForPebble /\ ~reachable /\ reachable') =>
            status' = WaitingForPebble]_vars

\* The workload came up after a run that found it unreachable, and no event
\* has been delivered since: the status is still Waiting.
C17_Witness ==
    /\ op = "workload"
    /\ reachable
    /\ status = WaitingForPebble

----------------------------------------------------------------------------
(* C18: when the version property asks the workload for its version *)

\* C18: the version property sends GET /version when and only when the
\* workload can be reached and its service list, when obtained, shows the
\* managed service; otherwise it sends nothing and, where it returns, returns
\* the empty string. A handler's call log shows the same: a request is
\* preceded by can_connect answering TRUE and by get_services, and a run that
\* ends Active without a request has set the empty version.
C18_RequestOnlyWhenServiceListed ==
    /\ \A ans \in AllAnswers :
           LET v == version(plan, config, ans)
               listed == ans.fault # "get_services" /\ Managed
           IN  /\ Count(v.calls, "http_get") = (IF ans.reach2 /\ listed THEN 1 ELSE 0)
               /\ (Count(v.calls, "http_get") = 1 => v.calls[Len(v.calls)] = HttpGet(config))
               /\ (Count(v.calls, "http_get") = 0 /\ ~v.raised => v.value = "")
    /\ (op \in ReconcileOps /\ Count(calls, "http_get") > 0) =>
           /\ Count(calls, "http_get") = 1
           /\ Managed
           /\ Len(calls) >= 3
           /\ calls[Len(calls)] = HttpGet(config)
           /\ calls[Len(calls) - 1] = GetServices(pebble_service_name)
           /\ calls[Len(calls) - 2] = CanConnect(TRUE)
    /\ (op \in ReconcileOps /\ outcome = "ok" /\ status = ActiveStatus
            /\ Count(calls, "http_get") = 0) =>
           /\ calls[Len(calls)] = CanConnect(FALSE)
           /\ workload_version = ""

\* A run sent the request and recorded the version the workload reported.
C18_Witness ==
    /\ op \in ReconcileOps
    /\ Count(calls, "http_get") = 1
    /\ Count(calls, "get_services") = 1
    /\ workload_version \in Versions
    /\ status = ActiveStatus

----------------------------------------------------------------------------
(* C19: what the service runs with when the unit is Active *)

\* C19: when _update_layer_and_restart ends with the status Active, the
\* configuration the managed service was last restarted with is the desired
\* one.
C19_ActiveRunsDesired ==
    (op \in ReconcileOps /\ outcome = "ok" /\ status = ActiveStatus) =>
        running = desired(app_environment, config)

----------------------------------------------------------------------------
(* C20: the status a handler leaves *)

\* The calls on the workload that can raise inside _update_layer_and_restart.
RaisingCalls == {"get_plan", "add_layer", "restart", "get_services"}

\* C20: a handler that returns leaves the status Waiting, Blocked or Active;
\* the status Maintenance is left behind only by a run of
\* _update_layer_and_restart that a failing call on the workload aborted, and
\* it stays only until a handler returns.
C20_StatusAfterHandler ==
    /\ []((op \in EventOps /\ outcome = "ok") =>
            status.name \in {"waiting", "blocked", "active"})
    /\ [][status'.name = "maintenance" =>
            \/ /\ op' \in ReconcileOps
               /\ outcome' = "error"
               /\ calls' # << >>
               /\ calls'[Len(calls')].call \in RaisingCalls
            \/ /\ status' = status
               /\ (op' \notin EventOps \/ outcome' = "error")]_vars

\* add_layer succeeded, restart raised, and the handler left the status
\* Maintenance.
C20_Witness ==
    /\ op \in ReconcileOps
    /\ outcome = "error"
    /\ status = MaintenanceStatus("Assembling pod spec")
    /\ Count(calls, "add_layer") = 1
    /\ calls[Len(calls)] = Restart(pebble_service_name)

====
